---------------------------- MODULE Spec2Model ----------------------------
(* Model of the ergvein-filters crate: the UTXO-chain element selectors    *)
(* (src/src/btc.rs, src/src/util.rs, src/src/mempool.rs), the register-    *)
(* chain selector (src/src/ergo.rs), the key derivation (src/src/utils.rs, *)
(* src/src/filter.rs) and the Golomb-coded-set engine they drive.          *)
EXTENDS Integers, Sequences, FiniteSets, TLC

(***************************************************************************)
(* Bounds of the model and program constants.                              *)
(***************************************************************************)

\* Longest transaction list of a UTXO build (block.txdata, mempool list).
MaxTxs == 2

\* Longest transaction list of a register-chain payload.
MaxErgoTxs == 3

\* Width in bits of the element hash (the program's hash is 64 bits wide).
HashBits == 8

\* Longest sequence of elements or of values handed to the engine directly.
MaxElems == 3

\* Largest number of elements in the query of a match_all call.
MaxQuery == 3

\* Longest sequence of values and largest quotient handed to the codec.
MaxValues == 2

MaxQuotient == 3

\* Golomb-Rice remainder width and hash-space scale (utils.rs, mempool.rs).
P == 19

M == 784931

\* Reserved transaction-count prefix of the register-chain payload.
Sentinel == 10000002

\* Script opcodes, as numbered by the UTXO chain.
OP_0 == 0

OP_PUSHBYTES_20 == 20

OP_PUSHBYTES_32 == 32

OP_RETURN == 106

OP_DUP == 118

OP_HASH160 == 169

OP_EQUAL == 135

OP_EQUALVERIFY == 136

OP_CHECKSIG == 172

(***************************************************************************)
(* Byte strings and integers.                                              *)
(***************************************************************************)

Pow2(n) == 2 ^ n

Rep(b, n) == [i \in 1..n |-> b]

RECURSIVE Concat(_)
Concat(ss) ==
    IF ss = <<>> THEN <<>> ELSE Head(ss) \o Concat(Tail(ss))

\* A u64 is written as its eight base-256 digits, most significant first.
\* slice_to_u64_le: byte i of the slice is shifted left by 8*i, so it is the
\* digit of weight 256^i.
slice_to_u64_be(slice) == [d \in 1..8 |-> slice[d]]

slice_to_u64_le(slice) == [d \in 1..8 |-> slice[9 - d]]

\* The digit of weight 256^i (i in 0..7) of a u64.
Digit(k, i) == k[8 - i]

\* block_hash[a..b] of Rust: the bytes with 0-based index a .. b-1.
Slice(s, a, b) == [i \in 1..(b - a) |-> s[a + i]]

\* Compact-size length prefix of the UTXO chain's consensus encoding.
VarInt(n) ==
    IF n < 253 THEN <<n>> ELSE <<253, n % 256, n \div 256>>

\* Script::as_bytes: the raw bytes of the script.
as_bytes(script) == script

\* consensus::serialize(&Script): the length prefix, then the raw bytes.
serialize(script) == VarInt(Len(script)) \o script

(***************************************************************************)
(* Scripts of the UTXO chain and their classification.                     *)
(***************************************************************************)

EmptyScript == <<>>

P2WPKH(a) == <<OP_0, OP_PUSHBYTES_20>> \o Rep(a, 20)

P2WSH(a) == <<OP_0, OP_PUSHBYTES_32>> \o Rep(a, 32)

OpReturn(a) == <<OP_RETURN, 1, a>>

P2PKH(a) ==
    <<OP_DUP, OP_HASH160, OP_PUSHBYTES_20>> \o Rep(a, 20)
        \o <<OP_EQUALVERIFY, OP_CHECKSIG>>

P2SH(a) == <<OP_HASH160, OP_PUSHBYTES_20>> \o Rep(a, 20) \o <<OP_EQUAL>>

\* 1-of-1 bare multisig: OP_1 <33-byte key> OP_1 OP_CHECKMULTISIG.
Multisig(a) == <<81, 33>> \o Rep(a, 33) \o <<81, 174>>

is_empty(script) == Len(script) = 0

is_v0_p2wsh(script) ==
    /\ Len(script) = 34
    /\ script[1] = OP_0
    /\ script[2] = OP_PUSHBYTES_32

is_v0_p2wpkh(script) ==
    /\ Len(script) = 22
    /\ script[1] = OP_0
    /\ script[2] = OP_PUSHBYTES_20

is_p2sh(script) ==
    /\ Len(script) = 23
    /\ script[1] = OP_HASH160
    /\ script[2] = OP_PUSHBYTES_20
    /\ script[23] = OP_EQUAL

is_op_return(script) == ~is_empty(script) /\ script[1] = OP_RETURN

is_script_indexable_p2sh(script) ==
    ~is_empty(script)
        /\ (is_p2sh(script) \/ is_v0_p2wpkh(script) \/ is_op_return(script))

is_script_indexable(script) ==
    ~is_empty(script)
        /\ (is_v0_p2wsh(script) \/ is_v0_p2wpkh(script) \/ is_op_return(script))

(***************************************************************************)
(* Element hasher: a keyed hash of HashBits bits and the multiply-shift    *)
(* range reduction into [0, N*M).                                          *)
(***************************************************************************)

\* The sum of f[lo..hi], halving the range.
RECURSIVE SumSeq(_, _, _)
SumSeq(f, lo, hi) ==
    IF lo > hi THEN 0
    ELSE IF lo = hi THEN f[lo]
    ELSE SumSeq(f, lo, (lo + hi) \div 2) + SumSeq(f, (lo + hi) \div 2 + 1, hi)

\* A position-sensitive digest of a byte string.
Mix(bytes) ==
    SumSeq([i \in 1..Len(bytes) |-> ((bytes[i] + 1) * (2 * i * i + 1)) % Pow2(HashBits)],
           1, Len(bytes)) % Pow2(HashBits)

Hash(element, k0, k1) ==
    (Mix(k0) * 31 + Mix(k1) * 17 + Mix(element) + Len(element) * 101)
        % Pow2(HashBits)

\* (h * nm) >> HashBits, the product split so that it stays in range.
map_to_range(h, nm) ==
    h * (nm \div Pow2(HashBits)) + ((h * (nm % Pow2(HashBits))) \div Pow2(HashBits))

RECURSIVE Insert(_, _)
Insert(v, sorted) ==
    IF sorted = <<>> THEN <<v>>
    ELSE IF v <= Head(sorted) THEN <<v>> \o sorted
    ELSE <<Head(sorted)>> \o Insert(v, Tail(sorted))

\* The values left in the order they came in.
Sort_none(vs) == vs

RECURSIVE Sort(_)
Sort(vs) == IF vs = <<>> THEN <<>> ELSE Insert(Head(vs), Sort(Tail(vs)))

\* The sorted, range-reduced values of a sequence of elements for count n.
Mapped(elems, n, k0, k1) ==
    Sort([i \in 1..Len(elems) |-> map_to_range(Hash(elems[i], k0, k1), n * M)])

(***************************************************************************)
(* Bit-stream codec: Golomb-Rice code with remainder width P.              *)
(***************************************************************************)

\* A remainder field written least significant bit first.
remainder_bits_lsb_first(r, p) == [i \in 1..p |-> (r \div Pow2(i - 1)) % 2]

\* The p-bit field of a remainder, most significant bit first.
remainder_bits(r, p) == [i \in 1..p |-> (r \div Pow2(p - i)) % 2]

\* Encode(v, p): q one-bits, a zero-bit, then the low p bits of v.
encode_width(v, p) ==
    Rep(1, v \div Pow2(p)) \o <<0>> \o remainder_bits(v % Pow2(p), p)

\* The code of the filters: remainder width P.
golomb_rice_encode(v) == encode_width(v, P)

Bit(bits, i) == IF i <= Len(bits) THEN bits[i] ELSE 0

\* Bits are packed most significant first; the last byte is zero-padded.
PackBits(bits) ==
    [j \in 1..((Len(bits) + 7) \div 8) |->
        Bit(bits, 8 * j - 7) * 128 + Bit(bits, 8 * j - 6) * 64
        + Bit(bits, 8 * j - 5) * 32 + Bit(bits, 8 * j - 4) * 16
        + Bit(bits, 8 * j - 3) * 8 + Bit(bits, 8 * j - 2) * 4
        + Bit(bits, 8 * j - 1) * 2 + Bit(bits, 8 * j)]

UnpackBits(bytes) ==
    [i \in 1..(8 * Len(bytes)) |->
        (bytes[(i + 7) \div 8] \div Pow2(7 - ((i - 1) % 8))) % 2]

\* Length of the run of one-bits starting at pos; -1 when the buffer ends
\* before a zero-bit.
RECURSIVE UnaryRun(_, _, _)
UnaryRun(bits, pos, q) ==
    IF pos > Len(bits) THEN -1
    ELSE IF bits[pos] = 0 THEN q
    ELSE UnaryRun(bits, pos + 1, q + 1)

\* The n bits at pos, most significant first, as a number.
BitsValue(bits, pos, n) ==
    SumSeq([i \in 1..n |-> bits[pos + i - 1] * Pow2(n - i)], 1, n)

\* Decode(p): one value read at pos: [ok, val, pos]; ok is FALSE on a
\* buffer underrun.
decode_width(bits, pos, p) ==
    LET q == UnaryRun(bits, pos, 0)
    IN  IF q < 0 \/ pos + q + p > Len(bits)
        THEN [ok |-> FALSE, val |-> 0, pos |-> pos]
        ELSE [ok |-> TRUE,
              val |-> q * Pow2(p) + BitsValue(bits, pos + q + 1, p),
              pos |-> pos + q + 1 + p]

golomb_rice_decode(bits, pos) == decode_width(bits, pos, P)

\* count values read one after the other from pos: [ok, vals].
RECURSIVE decode_sequence(_, _, _, _)
decode_sequence(bits, pos, p, count) ==
    IF count = 0 THEN [ok |-> TRUE, vals |-> <<>>]
    ELSE LET d == decode_width(bits, pos, p)
         IN  IF ~d.ok THEN [ok |-> FALSE, vals |-> <<>>]
             ELSE LET rest == decode_sequence(bits, d.pos, p, count - 1)
                  IN  [ok |-> rest.ok, vals |-> <<d.val>> \o rest.vals]

\* The values of a sequence coded one after the other, the last byte padded.
encode_sequence(values, p) ==
    PackBits(Concat([i \in 1..Len(values) |-> encode_width(values[i], p)]))

(***************************************************************************)
(* GCS filter engine: write path and read path.                            *)
(***************************************************************************)

Deltas(sorted) ==
    [i \in 1..Len(sorted) |->
        IF i = 1 THEN sorted[1] ELSE sorted[i] - sorted[i - 1]]

\* GCSFilterWriter::finish: the count, then the coded deltas.
BuildFilter(elems, k0, k1) ==
    LET sorted == Mapped(elems, Len(elems), k0, k1)
        codes  == [i \in 1..Len(sorted) |-> golomb_rice_encode(Deltas(sorted)[i])]
    IN  VarInt(Len(elems)) \o PackBits(Concat(codes))

\* The count prefix of a buffer (0 when the buffer does not hold one).
FilterN(content) ==
    IF Len(content) = 0 THEN 0
    ELSE IF content[1] < 253 THEN content[1]
    ELSE IF Len(content) >= 3 THEN content[2] + 256 * content[3]
    ELSE 0

FilterBits(content) ==
    LET skip == IF Len(content) > 0 /\ content[1] >= 253 THEN 3 ELSE 1
    IN  IF Len(content) <= skip THEN <<>>
        ELSE UnpackBits(SubSeq(content, skip + 1, Len(content)))

\* The merge of match_any: data is the filter value reached so far,
\* remaining the number of values not yet decoded, j the query cursor.
RECURSIVE AnyLoop(_, _, _, _, _, _)
AnyLoop(bits, pos, remaining, data, mapped, j) ==
    IF j > Len(mapped) THEN [ok |-> TRUE, val |-> FALSE]
    ELSE IF data = mapped[j] THEN [ok |-> TRUE, val |-> TRUE]
    ELSE IF data < mapped[j]
    THEN IF remaining > 0
         THEN LET d == golomb_rice_decode(bits, pos)
              IN  IF ~d.ok THEN [ok |-> FALSE, val |-> FALSE]
                  ELSE AnyLoop(bits, d.pos, remaining - 1, data + d.val, mapped, j)
         ELSE [ok |-> TRUE, val |-> FALSE]
    ELSE AnyLoop(bits, pos, remaining, data, mapped, j + 1)

\* GCSFilterReader::match_any: [ok, val]; ok is FALSE for a corrupt filter.
gcs_match_any(content, k0, k1, query) ==
    LET n      == FilterN(content)
        mapped == Mapped(query, n, k0, k1)
        bits   == FilterBits(content)
        first  == golomb_rice_decode(bits, 1)
    IN  IF n = 0 \/ Len(query) = 0 THEN [ok |-> TRUE, val |-> FALSE]
        ELSE IF ~first.ok THEN [ok |-> FALSE, val |-> FALSE]
        ELSE AnyLoop(bits, first.pos, n - 1, first.val, mapped, 1)

\* The merge of match_all: every query value must be hit before the filter
\* sequence passes it; on a hit both cursors advance.
RECURSIVE AllLoop(_, _, _, _, _, _)
AllLoop(bits, pos, remaining, data, mapped, j) ==
    IF j > Len(mapped) THEN [ok |-> TRUE, val |-> TRUE]
    ELSE IF data > mapped[j] THEN [ok |-> TRUE, val |-> FALSE]
    ELSE IF data = mapped[j] /\ j = Len(mapped) THEN [ok |-> TRUE, val |-> TRUE]
    ELSE IF remaining = 0 THEN [ok |-> TRUE, val |-> FALSE]
    ELSE LET d == golomb_rice_decode(bits, pos)
         IN  IF ~d.ok THEN [ok |-> FALSE, val |-> FALSE]
             ELSE AllLoop(bits, d.pos, remaining - 1, data + d.val, mapped,
                          IF data = mapped[j] THEN j + 1 ELSE j)

\* GCSFilterReader::match_all: [ok, val]; ok is FALSE for a corrupt filter.
gcs_match_all(content, k0, k1, query) ==
    LET n      == FilterN(content)
        mapped == Mapped(query, n, k0, k1)
        bits   == FilterBits(content)
        first  == golomb_rice_decode(bits, 1)
    IN  IF n = 0 \/ Len(query) = 0 THEN [ok |-> TRUE, val |-> FALSE]
        ELSE IF ~first.ok THEN [ok |-> FALSE, val |-> FALSE]
        ELSE AllLoop(bits, first.pos, n - 1, first.val, mapped, 1)

(***************************************************************************)
(* Inputs of the model: transactions, blocks, keys, resolver answers.      *)
(***************************************************************************)

TxIn(sig, op) == [script_sig |-> sig, previous_output |-> op]

Tx(ins, outs) == [input |-> ins, output |-> outs]

\* A non-empty (legacy) unlock script.
LegacySig == <<72, 48, 69>>

\* Transactions covering every script type on the output side and empty and
\* non-empty unlock scripts on the input side; outpoints are distinct.
TxPool ==
    { Tx(<<TxIn(LegacySig, 10)>>, <<P2WPKH(1), P2PKH(2)>>),
      Tx(<<TxIn(<<>>, 11)>>, <<P2WSH(3)>>),
      Tx(<<TxIn(LegacySig, 12)>>, <<P2SH(4), OpReturn(5)>>),
      Tx(<<TxIn(LegacySig, 13), TxIn(<<>>, 14)>>, <<Multisig(6), EmptyScript>>),
      Tx(<<TxIn(<<>>, 15), TxIn(<<>>, 16)>>, <<>>) }

Range(f) == { f[i] : i \in DOMAIN f }

\* Lists of at most n distinct members of a pool.
RECURSIVE ListsUpTo(_, _)
ListsUpTo(pool, n) ==
    IF n = 0 THEN { <<>> }
    ELSE LET shorter == ListsUpTo(pool, n - 1)
         IN  shorter \cup
             { Append(l, x) : l \in { m \in shorter : Len(m) = n - 1 },
                              x \in pool } 

TxLists == { l \in ListsUpTo(TxPool, MaxTxs) : Cardinality(Range(l)) = Len(l) }

\* 32-byte block identifiers with pairwise distinct bytes.
BlockIds == { [i \in 1..32 |-> (i * s) % 256] : s \in {3, 7} }

Blocks == [hash : BlockIds, txdata : TxLists]

U64(n) == <<0, 0, 0, 0, 0, 0, n \div 256, n % 256>>

\* Key pairs a mempool caller may supply.
KeyPairs == { <<U64(1), U64(2)>>, <<U64(770), U64(1)>> }

\* What the caller's resolver may answer for a previous output.
ResolverResults ==
    { [found |-> FALSE, script |-> <<>>] } \cup
    { [found |-> TRUE, script |-> s] : s \in {P2WPKH(7), P2PKH(8), EmptyScript} }

NoMatch ==
    [op |-> "none", k0 |-> <<>>, k1 |-> <<>>, hash |-> <<>>,
     tx |-> Tx(<<>>, <<>>), query |-> <<>>, res |-> [ok |-> TRUE, val |-> FALSE]]

\* No ErgveinFilter yet, no arguments of new yet, and no call yet.
NoFilter == [tag |-> "none", inner |-> [content |-> <<>>]]

NoArgs == [currency |-> "none", content |-> <<>>]

NoCall == [op |-> "none"]

(***************************************************************************)
(* State.                                                                  *)
(***************************************************************************)

VARIABLES
    kind,      \* the build running: "none", "btc", "util_block", "mempool", "ergo"
    pc,        \* position of the build
    blockId,   \* block identifier the writer was created with
    keys,      \* <<k0, k1>> of the writer
    txs,       \* transaction list of a UTXO build
    payload,   \* [header, body] of a register-chain build
    n_tx,      \* transaction count read from the payload
    hpos,      \* count fields read from the payload header
    ti,        \* UTXO build: inputs taken from the iterator; register chain: i
    ii,        \* register chain: inputs of the current transaction resolved
    elements,  \* elements handed to the filter writer, in order
    calls,     \* resolver calls made, in order, with their answers
    result,    \* "none", "Ok" or "Err": what the build returned
    finished,  \* whether finish was called
    content,   \* content of the returned filter
    match,     \* the last match call on the returned filter
    filter,    \* the ErgveinFilter of filter.rs held by the caller
    given,     \* the arguments the caller passed to ErgveinFilter::new
    ret        \* the last call on the facade or the engine and what it returned

vars ==
    <<kind, pc, blockId, keys, txs, payload, n_tx, hpos, ti, ii, elements,
      calls, result, finished, content, match, filter, given, ret>>

\* The variables of the facade and of the calls on the engine.
fvars == <<filter, given, ret>>

NoPayload == [header |-> <<>>, body |-> <<>>]

Init ==
    /\ kind = "none"
    /\ pc = "idle"
    /\ blockId = <<>>
    /\ keys = <<U64(0), U64(0)>>
    /\ txs = <<>>
    /\ payload = NoPayload
    /\ n_tx = 0
    /\ hpos = 0
    /\ ti = 0
    /\ ii = 0
    /\ elements = <<>>
    /\ calls = <<>>
    /\ result = "none"
    /\ finished = FALSE
    /\ content = <<>>
    /\ match = NoMatch
    /\ filter = NoFilter
    /\ given = NoArgs
    /\ ret = NoCall

(***************************************************************************)
(* UTXO chain: writers.                                                    *)
(***************************************************************************)

\* BlockFilterWriter::new: the keys are the first 16 bytes of the block hash.
BlockFilterKeys(hash) ==
    <<slice_to_u64_le(Slice(hash, 0, 8)), slice_to_u64_le(Slice(hash, 8, 16))>>

block_is_block_filter == TRUE

mempool_is_block_filter == FALSE

is_block_filter(k) ==
    IF k = "mempool" THEN mempool_is_block_filter ELSE block_is_block_filter

\* The positions <<transaction, input>> of the inputs of transactions
\* n+1, n+2, ..., in order (flat_map over txs.iter().skip(n)).
InputPositions(list, n) ==
    Concat([k \in 1..(Len(list) - n) |->
               [i \in 1..Len(list[n + k].input) |-> [tx |-> n + k, vin |-> i]]])

\* util.rs, add_output_scripts: the elements it adds.
add_output_scripts(list) ==
    Concat([t \in 1..Len(list) |->
               LET indexable ==
                       SelectSeq(list[t].output, is_script_indexable)
               IN  [o \in 1..Len(indexable) |-> as_bytes(indexable[o])]])

\* util.rs, add_input_scripts: the coinbase is skipped for a block filter.
util_skip_none(is_block) == 0

util_skip(is_block) == IF is_block THEN 1 ELSE 0

\* util.rs, add_input_scripts: the inputs handed to the resolver.
util_inputs_all(list, n) == InputPositions(list, n)

util_inputs(list, n) ==
    SelectSeq(InputPositions(list, n),
              LAMBDA p : is_empty(list[p.tx].input[p.vin].script_sig))

\* util.rs, add_input_scripts: whether an Err of the resolver is returned.
util_returns_err_always(is_block) == TRUE

util_returns_err_block(is_block) == is_block

util_returns_err(is_block) == ~is_block

\* btc.rs: the crate's own copies of the three functions.
btc_is_script_indexable(script) ==
    ~is_empty(script)
        /\ (is_v0_p2wsh(script) \/ is_v0_p2wpkh(script) \/ is_op_return(script))

btc_add_output_scripts(list) ==
    Concat([t \in 1..Len(list) |->
               LET indexable ==
                       SelectSeq(list[t].output, btc_is_script_indexable)
               IN  [o \in 1..Len(indexable) |-> as_bytes(indexable[o])]])

btc_inputs(list) == InputPositions(list, 1)

\* The answers the resolver may give for an outpoint: a resolver is a
\* function, so an outpoint asked before gets the answer it got before.
Answers(op) ==
    IF \E c \in Range(calls) : c.outpoint = op
    THEN { c.res : c \in { d \in Range(calls) : d.outpoint = op } }
    ELSE ResolverResults

Call(p, op, r) == [tx |-> p.tx, vin |-> p.vin, outpoint |-> op, res |-> r]

(***************************************************************************)
(* UTXO chain: the builds.                                                 *)
(***************************************************************************)

\* ErgveinMempoolFilter::new_script_filter: MempoolFilterWriter::new.
MempoolNew(kp, list) ==
    /\ pc = "idle"
    /\ kind' = "mempool"
    /\ pc' = "outputs"
    /\ keys' = kp
    /\ txs' = list
    /\ UNCHANGED <<blockId, payload, n_tx, hpos, ti, ii, elements, calls,
                   result, finished, content, match, fvars>>

\* A caller of util.rs with a BlockFilterWriter, created from the block.
UtilBlockNew(block) ==
    /\ pc = "idle"
    /\ kind' = "util_block"
    /\ pc' = "outputs"
    /\ blockId' = block.hash
    /\ keys' = BlockFilterKeys(block.hash)
    /\ txs' = block.txdata
    /\ UNCHANGED <<payload, n_tx, hpos, ti, ii, elements, calls, result,
                   finished, content, match, fvars>>

\* btc.rs, ErgveinFilter::new_script_filter: BlockFilterWriter::new.
BtcNew(block) ==
    /\ pc = "idle"
    /\ kind' = "btc"
    /\ pc' = "outputs"
    /\ blockId' = block.hash
    /\ keys' = BlockFilterKeys(block.hash)
    /\ txs' = block.txdata
    /\ UNCHANGED <<payload, n_tx, hpos, ti, ii, elements, calls, result,
                   finished, content, match, fvars>>

UtilAddOutputScripts ==
    /\ kind \in {"mempool", "util_block"}
    /\ pc = "outputs"
    /\ elements' = elements \o add_output_scripts(txs)
    /\ pc' = "inputs"
    /\ UNCHANGED <<kind, blockId, keys, txs, payload, n_tx, hpos, ti, ii,
                   calls, result, finished, content, match, fvars>>

BtcAddOutputScripts ==
    /\ kind = "btc"
    /\ pc = "outputs"
    /\ elements' = elements \o btc_add_output_scripts(txs)
    /\ pc' = "inputs"
    /\ UNCHANGED <<kind, blockId, keys, txs, payload, n_tx, hpos, ti, ii,
                   calls, result, finished, content, match, fvars>>

\* util.rs, add_input_scripts: one turn of the loop, on the next input the
\* iterator yields and the resolver's answer r for it.
UtilAddInputScripts(r) ==
    LET ins == util_inputs(txs, util_skip(is_block_filter(kind)))
    IN  /\ kind \in {"mempool", "util_block"}
        /\ pc = "inputs"
        /\ ti < Len(ins)
        /\ LET p  == ins[ti + 1]
               op == txs[p.tx].input[p.vin].previous_output
           IN  /\ r \in Answers(op)
               /\ calls' = Append(calls, Call(p, op, r))
        /\ ti' = ti + 1
        /\ elements' =
               IF r.found /\ is_script_indexable(r.script)
               THEN Append(elements, as_bytes(r.script))
               ELSE elements
        /\ IF ~r.found /\ util_returns_err(is_block_filter(kind))
           THEN pc' = "done" /\ result' = "Err"
           ELSE UNCHANGED <<pc, result>>
        /\ UNCHANGED <<kind, blockId, keys, txs, payload, n_tx, hpos, ii,
                       finished, content, match, fvars>>

\* util.rs, add_input_scripts: the iterator is exhausted, Ok(()) is returned.
UtilAddInputScriptsOk ==
    /\ kind \in {"mempool", "util_block"}
    /\ pc = "inputs"
    /\ ti = Len(util_inputs(txs, util_skip(is_block_filter(kind))))
    /\ pc' = "finish"
    /\ UNCHANGED <<kind, blockId, keys, txs, payload, n_tx, hpos, ti, ii,
                   elements, calls, result, finished, content, match, fvars>>

\* btc.rs, add_input_scripts: one turn of the loop.
BtcAddInputScripts(r) ==
    LET ins == btc_inputs(txs)
    IN  /\ kind = "btc"
        /\ pc = "inputs"
        /\ ti < Len(ins)
        /\ LET p  == ins[ti + 1]
               op == txs[p.tx].input[p.vin].previous_output
           IN  /\ r \in Answers(op)
               /\ calls' = Append(calls, Call(p, op, r))
        /\ ti' = ti + 1
        /\ elements' =
               IF r.found /\ btc_is_script_indexable(r.script)
               THEN Append(elements, as_bytes(r.script))
               ELSE elements
        /\ IF ~r.found
           THEN pc' = "done" /\ result' = "Err"
           ELSE UNCHANGED <<pc, result>>
        /\ UNCHANGED <<kind, blockId, keys, txs, payload, n_tx, hpos, ii,
                       finished, content, match, fvars>>

BtcAddInputScriptsOk ==
    /\ kind = "btc"
    /\ pc = "inputs"
    /\ ti = Len(btc_inputs(txs))
    /\ pc' = "finish"
    /\ UNCHANGED <<kind, blockId, keys, txs, payload, n_tx, hpos, ti, ii,
                   elements, calls, result, finished, content, match, fvars>>

\* writer.finish() and the Ok(...) that returns the filter.
MempoolFinish ==
    /\ kind = "mempool"
    /\ pc = "finish"
    /\ finished' = TRUE
    /\ content' = BuildFilter(elements, keys[1], keys[2])
    /\ result' = "Ok"
    /\ pc' = "done"
    /\ UNCHANGED <<kind, blockId, keys, txs, payload, n_tx, hpos, ti, ii,
                   elements, calls, match, fvars>>

BtcFinish ==
    /\ kind \in {"btc", "util_block"}
    /\ pc = "finish"
    /\ finished' = TRUE
    /\ content' = BuildFilter(elements, keys[1], keys[2])
    /\ result' = "Ok"
    /\ pc' = "done"
    /\ UNCHANGED <<kind, blockId, keys, txs, payload, n_tx, hpos, ti, ii,
                   elements, calls, match, fvars>>

(***************************************************************************)
(* UTXO chain: matching a transaction's outputs.                           *)
(***************************************************************************)

\* mempool.rs, match_tx_outputs: the query is the raw bytes of each output.
mempool_tx_query_serialized(tx) ==
    [o \in 1..Len(tx.output) |-> serialize(tx.output[o])]

mempool_tx_query(tx) == [o \in 1..Len(tx.output) |-> as_bytes(tx.output[o])]

\* btc.rs, match_tx_outputs: the query is the serialization of each output.
btc_tx_query(tx) == [o \in 1..Len(tx.output) |-> serialize(tx.output[o])]

MempoolMatchTxOutputs(kp, tx) ==
    /\ kind = "mempool"
    /\ pc = "done"
    /\ result = "Ok"
    /\ match.op = "none"
    /\ match' =
           [op |-> "mempool_tx", k0 |-> kp[1], k1 |-> kp[2], hash |-> <<>>,
            tx |-> tx, query |-> mempool_tx_query(tx),
            res |-> gcs_match_any(content, kp[1], kp[2], mempool_tx_query(tx))]
    /\ UNCHANGED <<kind, pc, blockId, keys, txs, payload, n_tx, hpos, ti, ii,
                   elements, calls, result, finished, content, fvars>>

BtcMatchTxOutputs(block_hash, tx) ==
    LET k == BlockFilterKeys(block_hash)
    IN  /\ kind \in {"btc", "util_block"}
        /\ pc = "done"
        /\ result = "Ok"
        /\ match.op = "none"
        /\ match' =
               [op |-> "btc_tx", k0 |-> k[1], k1 |-> k[2], hash |-> block_hash,
                tx |-> tx, query |-> btc_tx_query(tx),
                res |-> gcs_match_any(content, k[1], k[2], btc_tx_query(tx))]
        /\ UNCHANGED <<kind, pc, blockId, keys, txs, payload, n_tx, hpos, ti,
                       ii, elements, calls, result, finished, content, fvars>>

(***************************************************************************)
(* Register chain: payload, resolver answers, writer.                      *)
(***************************************************************************)

ErgoTree(a) == [header |-> 0, root |-> <<8, 205, a>>]

\* ErgoTree::sigma_serialize_bytes: the header byte, then the root.
sigma_serialize_bytes(tree) == <<tree.header>> \o tree.root

ErgoTx(ins, outs) ==
    [inputs |-> ins, output_candidates |-> outs, wellformed |-> TRUE]

\* Bytes that Transaction::sigma_parse rejects.
MalformedTx ==
    [inputs |-> <<>>, output_candidates |-> <<>>, wellformed |-> FALSE]

ErgoTxPool ==
    { ErgoTx(<<21>>, <<ErgoTree(1)>>),
      ErgoTx(<<22, 23>>, <<ErgoTree(2), ErgoTree(1)>>),
      ErgoTx(<<24>>, <<ErgoTree(3)>>),
      MalformedTx }

ErgoBodies ==
    { l \in ListsUpTo(ErgoTxPool, MaxErgoTxs) : Cardinality(Range(l)) = Len(l) }

\* A payload is its count fields and the transactions after them; a
\* truncated payload has fewer fields or transactions than it announces.
Payloads ==
    { [header |-> <<>>, body |-> <<>>], [header |-> <<Sentinel>>, body |-> <<>>] }
        \cup { [header |-> h, body |-> b] :
                   h \in { <<n>> : n \in 0..(MaxErgoTxs + 1) }
                           \cup { <<Sentinel, n>> : n \in 0..(MaxErgoTxs + 1) },
                   b \in ErgoBodies }

\* What the caller's resolver may answer for a box identifier.
BoxResults ==
    { [found |-> FALSE, script |-> ErgoTree(0)],
      [found |-> TRUE, script |-> ErgoTree(4)],
      [found |-> TRUE, script |-> ErgoTree(1)] }

BoxAnswers(box_id) ==
    IF \E c \in Range(calls) : c.outpoint = box_id
    THEN { c.res : c \in { d \in Range(calls) : d.outpoint = box_id } }
    ELSE BoxResults

\* ergo.rs, ErgoFilterWriter::new: the keys of the writer.
ErgoFilterWriterKeys(block_id) ==
    <<slice_to_u64_le(Slice(block_id, 0, 8)),
      slice_to_u64_le(Slice(block_id, 8, 16))>>

\* filter.rs, RawFilterReader::new with the first and the last 8 bytes.
RawFilterReaderKeys_last8(block_hash) ==
    <<slice_to_u64_le(Slice(block_hash, 0, 8)),
      slice_to_u64_le(Slice(block_hash, Len(block_hash) - 8, Len(block_hash)))>>

\* filter.rs, RawFilterReader::new: the keys of the reader.
RawFilterReaderKeys(block_hash) ==
    <<slice_to_u64_le(Slice(block_hash, 0, 8)),
      slice_to_u64_le(Slice(block_hash, 8, 16))>>

\* ergo.rs, add_scripts: the range 1..n_tx of the loop.
ergo_in_range(i, n) == i < n

\* ergo.rs, add_scripts: the ? on the resolver's answer.
ergo_resolve_never_fails(r) == FALSE

ergo_resolve_fails(r) == ~r.found

\* ergo.rs, add_scripts: the ? on Transaction::sigma_parse.
ergo_parse_never_fails(body, i) == FALSE

ergo_parse_fails(body, i) == i > Len(body) \/ ~body[i].wellformed

(***************************************************************************)
(* Register chain: the build.                                              *)
(***************************************************************************)

\* ErgoFilter::new_script_filter: ErgoFilterWriter::new.
ErgoNew(block_id, pl) ==
    /\ pc = "idle"
    /\ kind' = "ergo"
    /\ pc' = "count"
    /\ blockId' = block_id
    /\ keys' = ErgoFilterWriterKeys(block_id)
    /\ payload' = pl
    /\ UNCHANGED <<txs, n_tx, hpos, ti, ii, elements, calls, result,
                   finished, content, match, fvars>>

\* add_scripts: the transaction count, behind the sentinel when it is there.
ErgoReadCount ==
    LET header == payload.header
    IN  /\ kind = "ergo"
        /\ pc = "count"
        /\ IF Len(header) = 0 \/ (header[1] = Sentinel /\ Len(header) < 2)
           THEN /\ pc' = "done"
                /\ result' = "Err"
                /\ hpos' = Len(header)
                /\ UNCHANGED <<n_tx, ti>>
           ELSE /\ pc' = "loop"
                /\ n_tx' = IF header[1] = Sentinel THEN header[2] ELSE header[1]
                /\ hpos' = IF header[1] = Sentinel THEN 2 ELSE 1
                /\ ti' = 1
                /\ UNCHANGED result
        /\ UNCHANGED <<kind, blockId, keys, txs, payload, ii, elements, calls,
                       finished, content, match, fvars>>

\* add_scripts: one turn of the loop up to the resolution of the inputs:
\* the transaction is parsed, the first one is skipped, the outputs of
\* another one are added.
ErgoParseTx ==
    /\ kind = "ergo"
    /\ pc = "loop"
    /\ ergo_in_range(ti, n_tx)
    /\ IF ergo_parse_fails(payload.body, ti)
       THEN /\ pc' = "done"
            /\ result' = "Err"
            /\ UNCHANGED <<ti, ii, elements>>
       ELSE IF ti = 1
       THEN /\ ti' = ti + 1
            /\ UNCHANGED <<pc, result, ii, elements>>
       ELSE /\ elements' =
                   elements \o
                   [o \in 1..Len(payload.body[ti].output_candidates) |->
                       sigma_serialize_bytes(payload.body[ti].output_candidates[o])]
            /\ pc' = "boxes"
            /\ ii' = 0
            /\ UNCHANGED <<ti, result>>
    /\ UNCHANGED <<kind, blockId, keys, txs, payload, n_tx, hpos, calls,
                   finished, content, match, fvars>>

\* add_scripts: the next input box of the transaction is resolved.
ErgoResolveInput(r) ==
    LET tx == payload.body[ti]
    IN  /\ kind = "ergo"
        /\ pc = "boxes"
        /\ ii < Len(tx.inputs)
        /\ r \in BoxAnswers(tx.inputs[ii + 1])
        /\ calls' =
               Append(calls, Call([tx |-> ti, vin |-> ii + 1], tx.inputs[ii + 1], r))
        /\ IF ergo_resolve_fails(r)
           THEN /\ pc' = "done"
                /\ result' = "Err"
                /\ UNCHANGED <<ii, elements>>
           ELSE /\ elements' = Append(elements, sigma_serialize_bytes(r.script))
                /\ ii' = ii + 1
                /\ UNCHANGED <<pc, result>>
        /\ UNCHANGED <<kind, blockId, keys, txs, payload, n_tx, hpos, ti,
                       finished, content, match, fvars>>

\* add_scripts: the inputs of the transaction are done, the loop goes on.
ErgoTxDone ==
    /\ kind = "ergo"
    /\ pc = "boxes"
    /\ ii = Len(payload.body[ti].inputs)
    /\ ti' = ti + 1
    /\ pc' = "loop"
    /\ UNCHANGED <<kind, blockId, keys, txs, payload, n_tx, hpos, ii,
                   elements, calls, result, finished, content, match, fvars>>

\* add_scripts: the range is exhausted, Ok(()) is returned.
ErgoAddScriptsOk ==
    /\ kind = "ergo"
    /\ pc = "loop"
    /\ ~ergo_in_range(ti, n_tx)
    /\ pc' = "finish"
    /\ UNCHANGED <<kind, blockId, keys, txs, payload, n_tx, hpos, ti, ii,
                   elements, calls, result, finished, content, match, fvars>>

ErgoFinish ==
    /\ kind = "ergo"
    /\ pc = "finish"
    /\ finished' = TRUE
    /\ content' = BuildFilter(elements, keys[1], keys[2])
    /\ result' = "Ok"
    /\ pc' = "done"
    /\ UNCHANGED <<kind, blockId, keys, txs, payload, n_tx, hpos, ti, ii,
                   elements, calls, match, fvars>>

(***************************************************************************)
(* Facade: matching through ErgveinFilter of filter.rs.                    *)
(***************************************************************************)

\* btc.rs and ergo.rs, new: the filter owns a copy of the bytes.
BtcFilter_new(bytes) == [content |-> bytes]

ErgoFilter_new(bytes) == [content |-> bytes]

\* filter.rs, ErgveinFilter::new with the two tags exchanged.
ErgveinFilter_new_swapped(currency, bytes) ==
    IF currency = "Btc"
    THEN [tag |-> "Ergo", inner |-> ErgoFilter_new(bytes)]
    ELSE [tag |-> "Btc", inner |-> BtcFilter_new(bytes)]

\* filter.rs, ErgveinFilter::new: the variant of the tag around the filter.
ErgveinFilter_new(currency, bytes) ==
    IF currency = "Btc"
    THEN [tag |-> "Btc", inner |-> BtcFilter_new(bytes)]
    ELSE [tag |-> "Ergo", inner |-> ErgoFilter_new(bytes)]

\* filter.rs, ErgveinFilter::currency.
ErgveinFilter_currency(f) == IF f.tag = "Btc" THEN "Btc" ELSE "Ergo"

\* filter.rs, ErgveinFilter::content.
ErgveinFilter_content(f) ==
    IF f.tag = "Btc" THEN f.inner.content ELSE f.inner.content

\* Slicing a block hash shorter than 16 bytes in RawFilterReader::new panics.
Panicked == [ok |-> FALSE, val |-> FALSE, panic |-> TRUE]

\* filter.rs, ErgveinFilter::match_any and match_all: the reader is keyed
\* from the block hash and reads the content.
ErgveinFilter_match_any(f, block_hash, query) ==
    IF Len(block_hash) < 16 THEN Panicked
    ELSE LET k == RawFilterReaderKeys(block_hash)
         IN  gcs_match_any(ErgveinFilter_content(f), k[1], k[2], query)

ErgveinFilter_match_all(f, block_hash, query) ==
    IF Len(block_hash) < 16 THEN Panicked
    ELSE LET k == RawFilterReaderKeys(block_hash)
         IN  gcs_match_all(ErgveinFilter_content(f), k[1], k[2], query)

FilterCurrency == {"Btc", "Ergo"}

\* Single elements a facade caller may ask for.
FacadeQueries ==
    { sigma_serialize_bytes(ErgoTree(a)) : a \in 1..4 } \cup { P2WPKH(1) }

\* The content a register-chain build returned is put behind the facade
\* with a tag, and ErgveinFilter::match_any is called on it.
FacadeMatchAny(currency, block_hash, e) ==
    LET k == RawFilterReaderKeys(block_hash)
        f == ErgveinFilter_new(currency, content)
    IN  /\ kind = "ergo"
        /\ pc = "done"
        /\ result = "Ok"
        /\ match.op = "none"
        /\ match' =
               [op |-> "facade_any", currency |-> currency,
                k0 |-> k[1], k1 |-> k[2], hash |-> block_hash,
                tx |-> Tx(<<>>, <<>>), query |-> <<e>>,
                res |-> ErgveinFilter_match_any(f, block_hash, <<e>>)]
        /\ UNCHANGED <<kind, pc, blockId, keys, txs, payload, n_tx, hpos, ti,
                       ii, elements, calls, result, finished, content, fvars>>

(***************************************************************************)
(* The engine driven directly through the writer and the reader of         *)
(* mempool.rs, and a build repeated over a reordered input.                *)
(***************************************************************************)

\* Elements a caller may add: scripts of both chains.
ElemPool == { P2WPKH(1), P2WSH(3), sigma_serialize_bytes(ErgoTree(1)) }

\* Sequences of elements, repetitions included.
ElemLists == ListsUpTo(ElemPool, MaxElems)

\* The reorderings of n things.
Perms(n) == { f \in [1..n -> 1..n] : Range(f) = 1..n }

Permute(seq, f) == [i \in 1..Len(seq) |-> seq[f[i]]]

\* Transactions of the builds that are repeated: one with indexable
\* outputs only, one with an input the resolver is asked for, one with both
\* kinds of input and no indexable output.
RebuildPool ==
    { Tx(<<TxIn(LegacySig, 10)>>, <<P2WPKH(1), P2PKH(2)>>),
      Tx(<<TxIn(<<>>, 11)>>, <<P2WSH(3)>>),
      Tx(<<TxIn(LegacySig, 13), TxIn(<<>>, 14)>>, <<Multisig(6), EmptyScript>>) }

RebuildLists == { l \in TxLists : Range(l) \subseteq RebuildPool }

\* The caller's resolver as the build has seen it answer.
Resolved(op) == CHOOSE r \in Answers(op) : TRUE

\* mempool.rs, ErgveinMempoolFilter::new_script_filter as one call, with the
\* resolver above: [ok, content].
mempool_new_script_filter(k0, k1, list) ==
    LET ins     == util_inputs(list, util_skip(mempool_is_block_filter))
        answers == [i \in 1..Len(ins) |->
                       Resolved(list[ins[i].tx].input[ins[i].vin].previous_output)]
        added   == SelectSeq(answers,
                             LAMBDA r : r.found /\ is_script_indexable(r.script))
        failed  == \E i \in 1..Len(answers) :
                       ~answers[i].found /\ util_returns_err(mempool_is_block_filter)
    IN  IF failed THEN [ok |-> FALSE, content |-> <<>>]
        ELSE [ok |-> TRUE,
              content |->
                  BuildFilter(add_output_scripts(list)
                                  \o [i \in 1..Len(added) |-> as_bytes(added[i].script)],
                              k0, k1)]

\* MempoolFilterWriter::new and add_element for each element of elems.
GcsNew(kp, elems) ==
    /\ pc = "idle"
    /\ kind' = "gcs"
    /\ pc' = "finish"
    /\ keys' = kp
    /\ elements' = elems
    /\ UNCHANGED <<blockId, txs, payload, n_tx, hpos, ti, ii, calls, result,
                   finished, content, match, fvars>>

\* MempoolFilterWriter::finish.
GcsFinish ==
    /\ kind = "gcs"
    /\ pc = "finish"
    /\ finished' = TRUE
    /\ content' = BuildFilter(elements, keys[1], keys[2])
    /\ result' = "Ok"
    /\ pc' = "done"
    /\ UNCHANGED <<kind, blockId, keys, txs, payload, n_tx, hpos, ti, ii,
                   elements, calls, match, fvars>>

\* A second writer with the same keys is given the elements in the order f.
GcsRebuild(f) ==
    /\ kind = "gcs"
    /\ pc = "done"
    /\ ret = NoCall
    /\ ret' = [op |-> "rebuild", elems |-> Permute(elements, f),
               val |-> BuildFilter(Permute(elements, f), keys[1], keys[2])]
    /\ UNCHANGED <<kind, pc, blockId, keys, txs, payload, n_tx, hpos, ti, ii,
                   elements, calls, result, finished, content, match, filter,
                   given>>

\* new_script_filter is called again on the transactions in the order f.
MempoolRebuild(f) ==
    /\ kind = "mempool"
    /\ pc = "done"
    /\ result = "Ok"
    /\ ret = NoCall
    /\ ret' = [op |-> "mempool_rebuild", txs |-> Permute(txs, f),
               val |-> mempool_new_script_filter(keys[1], keys[2], Permute(txs, f))]
    /\ UNCHANGED <<kind, pc, blockId, keys, txs, payload, n_tx, hpos, ti, ii,
                   elements, calls, result, finished, content, match, filter,
                   given>>

\* Elements a caller may ask for: added ones and others.
QueryPool == ElemPool \cup { P2WPKH(7), OpReturn(5) }

\* A set as the sequence an iterator over it yields.
RECURSIVE SeqOf(_)
SeqOf(set) ==
    IF set = {} THEN <<>>
    ELSE LET x == CHOOSE y \in set : TRUE
         IN  <<x>> \o SeqOf(set \ {x})

QueryLists ==
    { SeqOf(q) : q \in { r \in SUBSET QueryPool : Cardinality(r) <= MaxQuery } }

\* mempool.rs, MempoolFilterReader::new: the keys of the reader.
MempoolFilterReaderKeys_swapped(k0, k1) == <<k1, k0>>

MempoolFilterReaderKeys(k0, k1) == <<k0, k1>>

\* mempool.rs, ErgveinMempoolFilter::match_all on the content the writer
\* produced.
MempoolMatchAll(kp, query) ==
    LET k == MempoolFilterReaderKeys(kp[1], kp[2])
    IN  /\ kind = "gcs"
        /\ pc = "done"
        /\ result = "Ok"
        /\ ret = NoCall
        /\ ret' = [op |-> "match_all", k0 |-> kp[1], k1 |-> kp[2],
                   query |-> query,
                   val |-> gcs_match_all(content, k[1], k[2], query)]
        /\ UNCHANGED <<kind, pc, blockId, keys, txs, payload, n_tx, hpos, ti,
                       ii, elements, calls, result, finished, content, match,
                       filter, given>>

(***************************************************************************)
(* The bit-stream codec on its own.                                        *)
(***************************************************************************)

\* Remainder widths: the smallest, a small one and the one of the filters.
CodecWidths == {1, 3, P}

\* Values with quotient 0, 1 and MaxQuotient and remainders at both ends of
\* the field, with only the lowest bit set, and with the highest and the
\* second lowest bit set.
CodecValues(p) ==
    { q * Pow2(p) + r :
          q \in {0, 1, MaxQuotient},
          r \in {0, Pow2(p) - 1, 1, Pow2(p - 1) + (IF p > 2 THEN 2 ELSE 0)} }

\* The values are coded one after the other into a fresh buffer.
CodecWrite(p, values) ==
    /\ pc = "idle"
    /\ kind' = "codec"
    /\ pc' = "done"
    /\ content' = encode_sequence(values, p)
    /\ ret' = [op |-> "encode", p |-> p, values |-> values]
    /\ UNCHANGED <<blockId, keys, txs, payload, n_tx, hpos, ti, ii, elements,
                   calls, result, finished, match, filter, given>>

\* As many values as were written are read back from the buffer.
CodecRead ==
    /\ kind = "codec"
    /\ ret.op = "encode"
    /\ ret' = [op |-> "decode", p |-> ret.p, values |-> ret.values,
               val |-> decode_sequence(UnpackBits(content), 1, ret.p,
                                       Len(ret.values))]
    /\ UNCHANGED <<kind, pc, blockId, keys, txs, payload, n_tx, hpos, ti, ii,
                   elements, calls, result, finished, content, match, filter,
                   given>>

(***************************************************************************)
(* The facade over bytes received from elsewhere.                          *)
(***************************************************************************)

\* Block hashes a caller may pass: identifiers, and one that is too short.
FacadeHashes == BlockIds \cup { <<1, 2, 3>> }

\* Buffers a caller may pass to new: empty, a count of zero, counts with
\* the codes missing or cut, and filters of one and of two elements.
FacadeContents ==
    LET id == CHOOSE h \in BlockIds : TRUE
        k  == ErgoFilterWriterKeys(id)
    IN  { <<>>, <<0>>, <<1>>, <<2, 255>>,
          BuildFilter(<<sigma_serialize_bytes(ErgoTree(1))>>, k[1], k[2]),
          BuildFilter(<<sigma_serialize_bytes(ErgoTree(1)),
                        sigma_serialize_bytes(ErgoTree(2))>>, k[1], k[2]) }

FacadeQueryLists ==
    ListsUpTo({ sigma_serialize_bytes(ErgoTree(a)) : a \in 1..2 }, 2)

\* ErgveinFilter::new.
ErgveinFilterNew(currency, bytes) ==
    /\ pc = "idle"
    /\ kind' = "facade"
    /\ pc' = "done"
    /\ filter' = ErgveinFilter_new(currency, bytes)
    /\ given' = [currency |-> currency, content |-> bytes]
    /\ UNCHANGED <<blockId, keys, txs, payload, n_tx, hpos, ti, ii, elements,
                   calls, result, finished, content, match, ret>>

\* ErgveinFilter::currency.
ErgveinFilterCurrency ==
    /\ kind = "facade"
    /\ pc = "done"
    /\ ret' = [op |-> "currency", val |-> ErgveinFilter_currency(filter)]
    /\ UNCHANGED <<kind, pc, blockId, keys, txs, payload, n_tx, hpos, ti, ii,
                   elements, calls, result, finished, content, match, filter,
                   given>>

\* ErgveinFilter::content.
ErgveinFilterContent ==
    /\ kind = "facade"
    /\ pc = "done"
    /\ ret' = [op |-> "content", val |-> ErgveinFilter_content(filter)]
    /\ UNCHANGED <<kind, pc, blockId, keys, txs, payload, n_tx, hpos, ti, ii,
                   elements, calls, result, finished, content, match, filter,
                   given>>

\* ErgveinFilter::match_any; a panic ends the caller.
ErgveinFilterMatchAny(block_hash, query) ==
    LET val == ErgveinFilter_match_any(filter, block_hash, query)
    IN  /\ kind = "facade"
        /\ pc = "done"
        /\ ret' = [op |-> "match_any", hash |-> block_hash, query |-> query,
                   val |-> val]
        /\ pc' = IF val = Panicked THEN "panicked" ELSE pc
        /\ UNCHANGED <<kind, blockId, keys, txs, payload, n_tx, hpos, ti, ii,
                       elements, calls, result, finished, content, match,
                       filter, given>>

\* ErgveinFilter::match_all; a panic ends the caller.
ErgveinFilterMatchAll(block_hash, query) ==
    LET val == ErgveinFilter_match_all(filter, block_hash, query)
    IN  /\ kind = "facade"
        /\ pc = "done"
        /\ ret' = [op |-> "match_all", hash |-> block_hash, query |-> query,
                   val |-> val]
        /\ pc' = IF val = Panicked THEN "panicked" ELSE pc
        /\ UNCHANGED <<kind, blockId, keys, txs, payload, n_tx, hpos, ti, ii,
                       elements, calls, result, finished, content, match,
                       filter, given>>

Next ==
    \/ \E kp \in KeyPairs, list \in TxLists : MempoolNew(kp, list)
    \/ \E block \in Blocks : UtilBlockNew(block)
    \/ \E block \in Blocks : BtcNew(block)
    \/ UtilAddOutputScripts
    \/ BtcAddOutputScripts
    \/ \E r \in ResolverResults : UtilAddInputScripts(r)
    \/ UtilAddInputScriptsOk
    \/ \E r \in ResolverResults : BtcAddInputScripts(r)
    \/ BtcAddInputScriptsOk
    \/ MempoolFinish
    \/ BtcFinish
    \/ \E kp \in KeyPairs, tx \in TxPool : MempoolMatchTxOutputs(kp, tx)
    \/ \E h \in BlockIds, tx \in TxPool : BtcMatchTxOutputs(h, tx)
    \/ \E id \in BlockIds, pl \in Payloads : ErgoNew(id, pl)
    \/ ErgoReadCount
    \/ ErgoParseTx
    \/ \E r \in BoxResults : ErgoResolveInput(r)
    \/ ErgoTxDone
    \/ ErgoAddScriptsOk
    \/ ErgoFinish
    \/ \E c \in FilterCurrency, h \in BlockIds, e \in FacadeQueries :
           FacadeMatchAny(c, h, e)

Spec == Init /\ [][Next]_vars

\* The engine on its own and under the mempool build.
NextGcs ==
    \/ \E kp \in KeyPairs, list \in RebuildLists : MempoolNew(kp, list)
    \/ UtilAddOutputScripts
    \/ \E r \in ResolverResults : UtilAddInputScripts(r)
    \/ UtilAddInputScriptsOk
    \/ MempoolFinish
    \/ \E f \in Perms(Len(txs)) : MempoolRebuild(f)
    \/ \E kp \in KeyPairs, elems \in ElemLists : GcsNew(kp, elems)
    \/ GcsFinish
    \/ \E f \in Perms(Len(elements)) : GcsRebuild(f)
    \/ \E kp \in KeyPairs, query \in QueryLists : MempoolMatchAll(kp, query)
    \/ \E p \in CodecWidths :
           \E values \in ListsUpTo(CodecValues(p), MaxValues) : CodecWrite(p, values)
    \/ CodecRead

SpecGcs == Init /\ [][NextGcs]_vars

\* The facade over received bytes.
NextFacade ==
    \/ \E c \in FilterCurrency, bytes \in FacadeContents : ErgveinFilterNew(c, bytes)
    \/ ErgveinFilterCurrency
    \/ ErgveinFilterContent
    \/ \E h \in FacadeHashes, query \in FacadeQueryLists :
           ErgveinFilterMatchAny(h, query)
    \/ \E h \in FacadeHashes, query \in FacadeQueryLists :
           ErgveinFilterMatchAll(h, query)

SpecFacade == Init /\ [][NextFacade]_vars

(***************************************************************************)
(* Vocabulary of the properties.                                           *)
(***************************************************************************)

UtxoKinds == {"btc", "util_block", "mempool"}

\* The scripts of the three indexable types, by construction.
IndexableTypes ==
    UNION { { P2WPKH(a), P2WSH(a), OpReturn(a) } : a \in 0..9 }

HasIndexableOutput(tx) == \E o \in Range(tx.output) : o \in IndexableTypes

FailedCalls == { i \in 1..Len(calls) : ~calls[i].res.found }

CalledPositions == { <<calls[i].tx, calls[i].vin>> : i \in 1..Len(calls) }

\* Inputs of transactions from.. of the UTXO list: all, and those with an
\* empty unlock script.
AllInputs(from) ==
    UNION { { <<t, i>> : i \in 1..Len(txs[t].input) } : t \in from..Len(txs) }

SegwitInputs(from) ==
    { p \in AllInputs(from) : txs[p[1]].input[p[2]].script_sig = <<>> }

\* How many outputs of the list are indexable, and how many resolver
\* answers so far were an indexable script.
IndexableOutputCount ==
    Cardinality({ p \in UNION { { <<t, o>> : o \in 1..Len(txs[t].output) } :
                                t \in 1..Len(txs) } :
                  txs[p[1]].output[p[2]] \in IndexableTypes })

IndexableAnswerCount ==
    Cardinality({ i \in 1..Len(calls) :
                  calls[i].res.found /\ calls[i].res.script \in IndexableTypes })

MatchedTrue == match.res = [ok |-> TRUE, val |-> TRUE]

(***************************************************************************)
(* C1. UTXO-block build and a NotFound answer of the resolver.             *)
(***************************************************************************)

C3_MempoolSelfMatch ==
    ( /\ match.op = "mempool_tx"
      /\ <<match.k0, match.k1>> = keys
      /\ match.tx \in Range(txs)
      /\ HasIndexableOutput(match.tx) )
        => MatchedTrue

\* The match of C3 on a transaction that also has a non-indexable output,
\* against a filter that holds a resolved input script as well.
C3_Witness ==
    /\ match.op = "mempool_tx"
    /\ <<match.k0, match.k1>> = keys
    /\ match.tx \in Range(txs)
    /\ HasIndexableOutput(match.tx)
    /\ \E o \in Range(match.tx.output) : o \notin IndexableTypes
    /\ IndexableAnswerCount >= 1

(***************************************************************************)
(* C4. UTXO-block match_tx_outputs.                                        *)
(***************************************************************************)

\* C4: on the filter ErgveinFilter::new_script_filter built from a block,
\* match_tx_outputs with the block's hash returns true for every transaction
\* of the block that has an indexable output.
C4_BtcMatchTxOutputs ==
    ( /\ match.op = "btc_tx"
      /\ kind = "btc"
      /\ match.hash = blockId
      /\ match.tx \in Range(txs)
      /\ HasIndexableOutput(match.tx) )
        => MatchedTrue

(***************************************************************************)
(* C5. Indexability policy of the UTXO selectors.                          *)
(***************************************************************************)

\* C5: at every point of a UTXO build every element handed to the writer is
\* a P2WSH, P2WPKH or OP_RETURN script; once the outputs are done every
\* indexable output of every transaction is among the elements, every
\* resolved script that is indexable is among them, and nothing else is.
C5_IndexabilityPolicy ==
    kind \in UtxoKinds
        => /\ \A e \in Range(elements) : e \in IndexableTypes
           /\ pc # "outputs"
                  => \A t \in 1..Len(txs) : \A o \in Range(txs[t].output) :
                         o \in IndexableTypes => o \in Range(elements)
           /\ \A c \in Range(calls) :
                  (c.res.found /\ c.res.script \in IndexableTypes)
                      => c.res.script \in Range(elements)
           /\ Len(elements) =
                  (IF pc = "outputs" THEN 0 ELSE IndexableOutputCount)
                      + IndexableAnswerCount

\* A finished build whose transactions had a P2SH and an empty output and
\* whose resolver answered both an indexable and a non-indexable script.
C5_Witness ==
    /\ kind \in UtxoKinds /\ pc = "done" /\ result = "Ok"
    /\ \E t \in 1..Len(txs) : P2SH(4) \in Range(txs[t].output)
    /\ \E t \in 1..Len(txs) : EmptyScript \in Range(txs[t].output)
    /\ \E c \in Range(calls) : c.res.found /\ c.res.script = P2PKH(8)
    /\ \E c \in Range(calls) : c.res.found /\ c.res.script = P2WPKH(7)

(***************************************************************************)
(* C6. Input-side filter of the UTXO selectors.                            *)
(***************************************************************************)

\* C6 as stated: in every UTXO build (block and mempool) the resolver is
\* called only for inputs whose unlock script is empty.
C6_ResolverOnlyForEmptySig ==
    kind \in UtxoKinds
        => \A c \in Range(calls) : txs[c.tx].input[c.vin].script_sig = <<>>

\* C6 amended: add_input_scripts of util.rs (block-filter writer and
\* mempool) calls the resolver only for inputs whose unlock script is empty
\* and adds nothing for the others; ErgveinFilter::new_script_filter of
\* btc.rs calls it for every input of every transaction after the first,
\* whatever the unlock script.
C6_UtilOnlyEmptySigBtcAll ==
    /\ kind \in {"util_block", "mempool"}
           => /\ \A c \in Range(calls) :
                     txs[c.tx].input[c.vin].script_sig = <<>>
              /\ Len(elements) <=
                     IndexableOutputCount
                         + Cardinality({ p \in CalledPositions :
                               txs[p[1]].input[p[2]].script_sig = <<>> })
    /\ kind = "btc"
           => /\ CalledPositions \subseteq AllInputs(2)
              /\ (pc \in {"finish", "done"} /\ result # "Err")
                     => CalledPositions = AllInputs(2)

\* A finished util.rs build over a list with a non-empty unlock script
\* among the inputs the iterator passes, and a resolved input beside it.
C6_Witness ==
    /\ kind \in {"util_block", "mempool"} /\ pc = "done" /\ result = "Ok"
    /\ \E p \in AllInputs(2) : txs[p[1]].input[p[2]].script_sig # <<>>
    /\ \E p \in AllInputs(2) : p \in CalledPositions

(***************************************************************************)
(* C7. Coinbase handling.                                                  *)
(***************************************************************************)

\* C7: a UTXO-block build never calls the resolver for an input of the
\* first transaction and still adds that transaction's indexable outputs; a
\* mempool build skips no transaction, the inputs of the first one are
\* resolved first and like the others.
C7_CoinbaseHandling ==
    /\ kind \in {"btc", "util_block"}
           => /\ \A c \in Range(calls) : c.tx # 1
              /\ (pc # "outputs" /\ Len(txs) >= 1)
                     => \A o \in Range(txs[1].output) :
                            o \in IndexableTypes => o \in Range(elements)
    /\ kind = "mempool"
           => /\ (Len(calls) >= 1 /\ SegwitInputs(1) \ SegwitInputs(2) # {})
                     => calls[1].tx = 1
              /\ (pc = "done" /\ result = "Ok")
                     => SegwitInputs(1) \ SegwitInputs(2) \subseteq CalledPositions

\* A finished block build over a first transaction with an input of empty
\* unlock script and an indexable output, with later inputs resolved.
C7_Witness ==
    /\ kind \in {"btc", "util_block"} /\ pc = "done" /\ result = "Ok"
    /\ Len(txs) >= 2
    /\ \E i \in 1..Len(txs[1].input) : txs[1].input[i].script_sig = <<>>
    /\ HasIndexableOutput(txs[1])
    /\ Len(calls) >= 1

(***************************************************************************)
(* C8. Key derivation of the register-chain writer and the facade reader.  *)
(***************************************************************************)

\* Whether k0 is the little-endian u64 of the 8 bytes of id after the first
\* a0 ones, and k1 that of the 8 bytes after the first a1 ones.
KeysAt(k0, k1, id, a0, a1) ==
    \A i \in 0..7 :
        Digit(k0, i) = id[a0 + i + 1] /\ Digit(k1, i) = id[a1 + i + 1]

\* C8 as stated: for a 32-byte identifier k0 is the little-endian u64 of
\* its first 8 bytes and k1 that of its last 8 bytes, in ErgoFilterWriter::new
\* and in RawFilterReader::new.
C8_KeysFirstAndLast8 ==
    /\ kind = "ergo" => KeysAt(keys[1], keys[2], blockId, 0, 24)
    /\ match.op = "facade_any" => KeysAt(match.k0, match.k1, match.hash, 0, 24)

\* C8 amended: k0 is the little-endian u64 of bytes 0..8 and k1 that of
\* bytes 8..16 of the identifier (its first 16 bytes; the last 16 bytes of a
\* 32-byte identifier are not read), in both places.
C8_KeysFirst16 ==
    /\ kind = "ergo" => KeysAt(keys[1], keys[2], blockId, 0, 8)
    /\ match.op = "facade_any" => KeysAt(match.k0, match.k1, match.hash, 0, 8)

\* A facade match under another identifier than the writer's.
C8_Witness ==
    /\ kind = "ergo" /\ match.op = "facade_any"
    /\ Len(blockId) = 32 /\ match.hash # blockId

(***************************************************************************)
(* C9. Register-chain selection.                                           *)
(***************************************************************************)

WellFormedPayload ==
    /\ n_tx = Len(payload.body)
    /\ \A t \in 1..Len(payload.body) : payload.body[t].wellformed

\* C9: for a payload of n_tx transactions the build adds the serialized
\* scripts of all outputs and the resolved scripts of all inputs of the
\* transactions 2..n_tx, the last one included, and nothing else.
C9_AllButFirstAdded ==
    (kind = "ergo" /\ pc = "done" /\ result = "Ok" /\ WellFormedPayload)
        => /\ \A t \in 2..n_tx :
                  /\ \A o \in Range(payload.body[t].output_candidates) :
                         sigma_serialize_bytes(o) \in Range(elements)
                  /\ \A i \in 1..Len(payload.body[t].inputs) :
                         <<t, i>> \in CalledPositions
           /\ \A c \in Range(calls) : c.tx \in 2..n_tx
           /\ \A c \in Range(calls) :
                  sigma_serialize_bytes(c.res.script) \in Range(elements)

(***************************************************************************)
(* C10. Register-chain build aborts on the first error.                    *)
(***************************************************************************)

\* The transactions add_scripts has parsed without an error.
ParsedOk ==
    IF pc = "boxes" \/ (pc = "done" /\ FailedCalls # {})
    THEN 1..ti
    ELSE 1..(ti - 1)

C11_OrderIndependence ==
    /\ ret.op = "rebuild" => ret.val = content
    /\ ret.op = "mempool_rebuild" => ret.val = [ok |-> TRUE, content |-> content]

\* Three distinct elements rebuilt in another order, and a mempool build of
\* two transactions that added elements rebuilt with the two exchanged.
C11_WitnessGcs ==
    /\ ret.op = "rebuild" /\ ret.elems # elements
    /\ Cardinality(Range(elements)) >= 3

C11_Witness ==
    /\ ret.op = "mempool_rebuild" /\ ret.txs # txs
    /\ add_output_scripts(ret.txs) # add_output_scripts(txs)
    /\ Len(calls) >= 1 /\ Len(elements) >= 3

(***************************************************************************)
(* C12. No false negatives of match_all.                                   *)
(***************************************************************************)

\* The values the writer coded, and the values of the query of the last
\* call reduced with the count stored in the filter.
FilterValues == Mapped(elements, Len(elements), keys[1], keys[2])

QueryValues == Mapped(ret.query, FilterN(content), ret.k0, ret.k1)

SameKeys == <<ret.k0, ret.k1>> = <<keys[1], keys[2]>>

\* C12: match_all with the keys of the build and a non-empty query of
\* added elements returns true; and when a query value lies beyond the
\* last value of the filter, so that the decoded sequence ends before the
\* value is hit, match_all returns false.
C12_MatchAllNoFalseNegatives ==
    ret.op = "match_all"
        => /\ (SameKeys /\ ret.query # <<>>
                   /\ Range(ret.query) \subseteq Range(elements))
                  => ret.val = [ok |-> TRUE, val |-> TRUE]
           /\ LET fv == FilterValues
                  qv == QueryValues
              IN  (\E j \in 1..Len(qv) : \A i \in 1..Len(fv) : fv[i] < qv[j])
                      => ret.val = [ok |-> TRUE, val |-> FALSE]

\* A query of two of at least three added elements, answered for the keys
\* of the build.
C12_Witness ==
    /\ ret.op = "match_all" /\ SameKeys
    /\ Len(ret.query) = 2 /\ Range(ret.query) \subseteq Range(elements)
    /\ Cardinality(Range(elements)) >= 3

\* A query with a value beyond the end of a filter of two elements.
C12_WitnessExhausted ==
    /\ ret.op = "match_all" /\ Len(elements) >= 2 /\ Len(ret.query) >= 2
    /\ LET fv == FilterValues
           qv == QueryValues
       IN  /\ \E j \in 1..Len(qv) : \A i \in 1..Len(fv) : fv[i] < qv[j]
           /\ \E j \in 1..Len(qv) : \E i \in 1..Len(fv) : fv[i] = qv[j]

(***************************************************************************)
(* C14. Golomb-Rice round trip.                                            *)
(***************************************************************************)

\* The buffer holds the code of the single value v for width p: v >> p
\* one-bits, a zero-bit, the low p bits of v most significant first, and
\* zero bits up to the end of the last byte.
IsCodeOf(bytes, v, p) ==
    LET bits == UnpackBits(bytes)
        q    == v \div Pow2(p)
    IN  /\ Len(bytes) = (q + 1 + p + 7) \div 8
        /\ \A i \in 1..q : bits[i] = 1
        /\ bits[q + 1] = 0
        /\ \A i \in 1..p : bits[q + 1 + i] = (v \div Pow2(p - i)) % 2
        /\ \A i \in (q + p + 2)..Len(bits) : bits[i] = 0

\* C14: the bits of a coded value are its quotient in unary, a zero-bit and
\* its low p bits most significant first; decoding them returns the value;
\* and decoding as many values as were coded from the concatenated,
\* zero-padded buffer returns the same sequence.
C14_GolombRiceRoundTrip ==
    /\ (ret.op \in {"encode", "decode"} /\ Len(ret.values) = 1)
           => IsCodeOf(content, ret.values[1], ret.p)
    /\ ret.op = "decode" => ret.val = [ok |-> TRUE, vals |-> ret.values]

\* Two values of width P with quotients and remainders that differ, read
\* back from a buffer whose last byte is padded.
C14_Witness ==
    /\ ret.op = "decode" /\ ret.p = P /\ Len(ret.values) = 2
    /\ ret.values[1] \div Pow2(P) # ret.values[2] \div Pow2(P)
    /\ ret.values[1] % Pow2(P) = Pow2(P - 1) + 2
    /\ ret.values[2] % Pow2(P) = Pow2(P) - 1
    /\ 8 * Len(content) > ret.values[1] \div Pow2(P) + ret.values[2] \div Pow2(P) + 2 * (P + 1)

(***************************************************************************)
(* C15. The facade never changes the bytes it holds.                       *)
(***************************************************************************)

\* C15: after new(currency, content) and any calls of currency, content,
\* match_any and match_all, whatever they returned, the filter holds the
\* bytes and the tag passed to new, and the last content() or currency()
\* returned exactly them.
C15_FacadeImmutable ==
    kind = "facade"
        => /\ filter.inner.content = given.content
           /\ filter.tag = given.currency
           /\ ret.op = "content" => ret.val = given.content
           /\ ret.op = "currency" => ret.val = given.currency

\* The same as a step property: no call on the facade changes the filter.
C15_FilterNeverChanges ==
    [][filter # NoFilter => filter' = filter]_vars

\* The filter right after a match_all on a cut buffer returned an error,
\* and right after a match_any behind the Btc tag returned true.
C15_Witness ==
    /\ kind = "facade" /\ ret.op = "match_all" /\ given.content # <<>>
    /\ ret.val = [ok |-> FALSE, val |-> FALSE]

C15_WitnessHit ==
    /\ kind = "facade" /\ ret.op = "match_any" /\ given.currency = "Btc"
    /\ ret.val = [ok |-> TRUE, val |-> TRUE]

(***************************************************************************)
(* C16. Writer and reader of the register chain agree on the keys.         *)
(***************************************************************************)

OtherCurrency(c) == IF c = "Btc" THEN "Ergo" ELSE "Btc"

\* C16: for the identifier the filter was built with, the reader behind the
\* facade has the keys of the writer, and match_any on the returned content
\* is true for every single element the build added; and the result of
\* match_any is the one the other tag gives for the same content, block
\* identifier and query.
C16_WriterReaderKeyAgreement ==
    (kind = "ergo" /\ match.op = "facade_any")
        => /\ match.hash = blockId
                  => /\ <<match.k0, match.k1>> = keys
                     /\ match.query[1] \in Range(elements) => MatchedTrue
           /\ match.res =
                  ErgveinFilter_match_any(
                      ErgveinFilter_new(OtherCurrency(match.currency), content),
                      match.hash, match.query)

\* A build that added two elements or more, its content behind the Ergo
\* tag, asked under the identifier of the build for an element it added.
C16_Witness ==
    /\ kind = "ergo" /\ match.op = "facade_any" /\ match.currency = "Ergo"
    /\ match.hash = blockId /\ Len(blockId) >= 16
    /\ Cardinality(Range(elements)) >= 2
    /\ match.query[1] \in Range(elements)
    /\ MatchedTrue

=============================================================================
